---- MODULE Spec2Model ----
(***************************************************************************)
(* Collection registry and chunk store of langconnect                      *)
(* (langconnect/database/collections.py, langconnect/database/documents.py)*)
(* over the two tables langchain_pg_collection and langchain_pg_embedding. *)
(***************************************************************************)
EXTENDS Integers, Sequences, FiniteSets, TLC

\* ------------------------------------------------------------------ bounds
NumUsers == 2
NumNames == 2
MaxUuid == 2
MaxChunks == 2
MaxRegistryChunks == 1
MaxHits == 2
MaxScore == 2
MaxMembers == 3

UserPool == <<"user1", "user2", "user3", "user4">>
Users == {UserPool[i] : i \in 1..NumUsers}

\* collection names, listed in the collation order ORDER BY name uses
NamePool == <<"colA", "colB", "colC", "colD">>
Names == {NamePool[i] : i \in 1..NumNames}
NameRank(n) == CHOOSE i \in 1..Len(NamePool) : NamePool[i] = n

Tasks == {"t1", "t2"}
Uuids == 1..MaxUuid
\* file ids, listed in the collation order ORDER BY file_id uses
FilePool == <<"f1", "f2">>
FileIds == {FilePool[i] : i \in 1..Len(FilePool)}
FileRank(f) == CHOOSE i \in 1..Len(FilePool) : FilePool[i] = f

\* ------------------------------------------------------- optional values
None == <<>>
Some(x) == <<x>>

\* ------------------------------------------------- dicts and JSON text
KeyOrder == <<"a", "owner_id">>
KeyVals(k) == IF k = "a" THEN {"1"} ELSE Users
EmptyDict == [k \in {} |-> "1"]
DictSet(d, k, v) == [x \in (DOMAIN d) \cup {k} |-> IF x = k THEN v ELSE d[x]]

\* the metadata payloads a caller can send, owner_id included
Dicts ==
  UNION {[ks -> {"1"} \cup Users] : ks \in SUBSET {"a", "owner_id"}}
MetaInputs ==
  {d \in Dicts : /\ \A k \in DOMAIN d : d[k] \in KeyVals(k)
                 /\ Cardinality(DOMAIN d) <= 1}

\* json.dumps of a dict: the text of a JSON object, its members in order
RECURSIVE DumpFrom(_, _)
DumpFrom(d, i) ==
  IF i > Len(KeyOrder) THEN <<>>
  ELSE (IF KeyOrder[i] \in DOMAIN d
          THEN <<(<<KeyOrder[i], d[KeyOrder[i]]>>)>> ELSE <<>>)
       \o DumpFrom(d, i + 1)
JsonDumps(d) == [kind |-> "object", members |-> DumpFrom(d, 1)]

\* json.loads of the text of a JSON object: later members win
RECURSIVE LoadMembers(_)
LoadMembers(ms) ==
  IF ms = <<>> THEN EmptyDict
  ELSE DictSet(LoadMembers(SubSeq(ms, 1, Len(ms) - 1)),
               ms[Len(ms)][1], ms[Len(ms)][2])
JsonLoads(text) == LoadMembers(text.members)

\* cmetadata->>key : the member's value as text, NULL when there is none
JsonGetText(text, key) ==
  IF \E i \in 1..Len(text.members) : text.members[i][1] = key
    THEN LET i == CHOOSE j \in 1..Len(text.members) :
                    /\ text.members[j][1] = key
                    /\ \A l \in (j + 1)..Len(text.members) :
                         text.members[l][1] # key
         IN Some(text.members[i][2])
    ELSE None

\* the text "null", text that is JSON but no object, text that is no JSON
NullText == [kind |-> "null"]
ArrayText(items) == [kind |-> "array", items |-> items]
InvalidText == [kind |-> "invalid"]

\* a Python value that is neither a str nor a dict
PyList(items) == [pytype |-> "list", items |-> items]

\* isinstance(raw, str), isinstance(raw, dict)
IsStr(x) == "kind" \in DOMAIN x
IsDict(x) == (DOMAIN x) \subseteq {"a", "owner_id"}

\* json.loads of any text but the invalid one, which raises JSONDecodeError
JsonLoadsAny(text) ==
  IF text.kind = "object" THEN JsonLoads(text)
  ELSE IF text.kind = "array" THEN PyList(text.items)
  ELSE PyList(<<>>)

ParseMetadata(raw) ==
  IF raw = None THEN EmptyDict
  ELSE IF IsStr(raw[1])
    THEN IF raw[1] = NullText THEN EmptyDict
         ELSE IF raw[1].kind = "invalid" THEN EmptyDict
         ELSE JsonLoadsAny(raw[1])
  ELSE IF IsDict(raw[1]) THEN raw[1]
  ELSE EmptyDict

\* ------------------------------------------------------------------ state
VARIABLES
  pg_collection,   \* table langchain_pg_collection: rows uuid, name, cmetadata
  pg_embedding,    \* table langchain_pg_embedding: rows id, collection_id, file_id
  nextUuid,        \* uuids handed out so far + 1
  nextChunk,       \* chunk ids handed out so far + 1
  tasks,           \* position of each in-flight Collections.create call
  ret              \* what the step just taken returned or raised

vars == <<pg_collection, pg_embedding, nextUuid, nextChunk, tasks, ret>>

UuidStr(i) == ToString(i)
UuidStrs == {UuidStr(i) : i \in Uuids}

Idle == [pc |-> "idle", user |-> "", name |-> ""]

\* ----------------------------------------------------------- SQL pieces
\* the ownership predicate left out of the WHERE clause
OwnerIs_Any(r, user_id) == TRUE

\* cmetadata->>'owner_id' = $n
OwnerIs(r, user_id) == JsonGetText(r.cmetadata, "owner_id") = Some(user_id)

\* conn.fetchrow: one of the rows the statement yields, None when none
FetchRow(rows) == IF rows = {} THEN {None} ELSE {Some(r) : r \in rows}

\* the dict the methods build from a record
Details(rec) ==
  [uuid |-> UuidStr(rec.uuid), name |-> rec.name,
   metadata |-> ParseMetadata(Some(rec.cmetadata))]
Found(rec) == IF rec = None THEN None ELSE Some(Details(rec[1]))

\* a table without the constraint
UniqueOwnerName_Absent(table) == TRUE

\* compound uniqueness constraint (owner, name) of the storage layer
UniqueOwnerName(table) ==
  \A r1 \in table : \A r2 \in table :
    (r1.name = r2.name
       /\ JsonGetText(r1.cmetadata, "owner_id")
            = JsonGetText(r2.cmetadata, "owner_id"))
    => r1 = r2

\* the row get_vectorstore(collection_name, collection_metadata=...) persists
NewCollection(uuid, collection_name, metadata) ==
  [uuid |-> uuid, name |-> collection_name, cmetadata |-> JsonDumps(metadata)]

\* chunks go with their collection (foreign key, cascading delete)
Cascade(chunks, table) ==
  {c \in chunks : \E r \in table : r.uuid = c.collection_id}

\* SELECT ... WHERE cmetadata->>'owner_id' = $1
SelectOwned(table, user_id) == {r \in table : OwnerIs(r, user_id)}

\* WHERE cmetadata->>'owner_id' = $2 alone
SelectById_OwnerOnly(table, collection_id, user_id) ==
  {r \in table : OwnerIs(r, user_id)}

\* WHERE uuid = $1 alone
SelectById_IdOnly(table, collection_id, user_id) ==
  {r \in table : UuidStr(r.uuid) = collection_id}

\* SELECT ... WHERE uuid = $1 AND cmetadata->>'owner_id' = $2
SelectById(table, collection_id, user_id) ==
  {r \in table : UuidStr(r.uuid) = collection_id /\ OwnerIs(r, user_id)}

\* WHERE name = $1 alone
SelectByName_NameOnly(table, collection_name, user_id) ==
  {r \in table : r.name = collection_name}

\* SELECT ... WHERE name = $1 AND cmetadata->>'owner_id' = $2
SelectByName(table, collection_name, user_id) ==
  {r \in table : r.name = collection_name /\ OwnerIs(r, user_id)}

\* SELECT uuid FROM langchain_pg_collection, the WHERE clause left out
SelectUuidByName_Any(table, collection_name) == table

\* SELECT uuid FROM langchain_pg_collection WHERE name = $1
SelectUuidByName(table, collection_name) ==
  {r \in table : r.name = collection_name}

\* the statement without ORDER BY: the rows in any arrangement
OrderByName_Unordered(rows) ==
  {s \in [1..Cardinality(rows) -> rows] :
     \A i \in DOMAIN s : \A j \in DOMAIN s : s[i] = s[j] => i = j}

\* ORDER BY name: every arrangement of the rows with names ascending
OrderByName(rows) ==
  {s \in [1..Cardinality(rows) -> rows] :
     /\ \A i \in DOMAIN s : \A j \in DOMAIN s : s[i] = s[j] => i = j
     /\ \A i \in DOMAIN s : \A j \in DOMAIN s :
          i < j => NameRank(s[i].name) <= NameRank(s[j].name)}

Init ==
  /\ pg_collection = {}
  /\ pg_embedding = {}
  /\ nextUuid = 1
  /\ nextChunk = 1
  /\ tasks = [t \in Tasks |-> Idle]
  /\ ret = [op |-> "init"]

\* ------------------------------------------------------- Collections.list
List(user_id) ==
  /\ \E records \in OrderByName(SelectOwned(pg_collection, user_id)) :
       ret' = [op |-> "list", user |-> user_id, status |-> "ok",
               value |-> [i \in DOMAIN records |-> Details(records[i])]]
  /\ UNCHANGED <<pg_collection, pg_embedding, nextUuid, nextChunk, tasks>>

\* -------------------------------------------------------- Collections.get
Get(user_id, collection_id) ==
  /\ \E rec \in FetchRow(SelectById(pg_collection, collection_id, user_id)) :
       ret' = [op |-> "get", user |-> user_id, id |-> collection_id,
               status |-> "ok", value |-> Found(rec)]
  /\ UNCHANGED <<pg_collection, pg_embedding, nextUuid, nextChunk, tasks>>

\* ----------------------------------------------- Collections._get_by_name
GetByName(user_id, collection_name) ==
  /\ \E rec \in FetchRow(SelectByName(pg_collection, collection_name, user_id)) :
       ret' = [op |-> "get_by_name", user |-> user_id,
               name |-> collection_name, status |-> "ok",
               value |-> Found(rec)]
  /\ UNCHANGED <<pg_collection, pg_embedding, nextUuid, nextChunk, tasks>>

\* ----------------------------------------------------- Collections.create
\* metadata.setdefault("owner_id", user_id): a supplied owner_id is kept
CreateMetadata_KeepOwner(user_id, metadata) ==
  IF metadata # None /\ "owner_id" \in DOMAIN metadata[1]
    THEN metadata[1]
    ELSE DictSet(IF metadata # None THEN metadata[1] ELSE EmptyDict,
                 "owner_id", user_id)

\* metadata = metadata.copy() if metadata else {}; metadata["owner_id"] = user_id
CreateMetadata(user_id, metadata) ==
  DictSet(IF metadata # None /\ metadata[1] # EmptyDict
            THEN metadata[1] ELSE EmptyDict,
          "owner_id", user_id)

\* the pre-check left out
NameTaken_Never(existing) == FALSE

\* if existing: raise HTTPException(409)
NameTaken(existing) == existing # None

\* the whole call, run without another request in between
Create(user_id, collection_name, metadata) ==
  /\ nextUuid <= MaxUuid
  /\ \A t \in Tasks : tasks[t].pc = "idle"
  /\ LET call == [op |-> "create", user |-> user_id, name |-> collection_name]
         row == NewCollection(nextUuid, collection_name,
                              CreateMetadata(user_id, metadata))
         table == pg_collection \cup {row}
     IN \E existing \in
            FetchRow(SelectByName(pg_collection, collection_name, user_id)) :
          IF NameTaken(existing)
            THEN /\ ret' = call @@ [status |-> "Conflict"]
                 /\ UNCHANGED <<pg_collection, nextUuid>>
            ELSE IF ~UniqueOwnerName(table)
              THEN /\ ret' = call @@ [status |-> "UniqueViolation"]
                   /\ UNCHANGED <<pg_collection, nextUuid>>
              ELSE /\ pg_collection' = table
                   /\ nextUuid' = nextUuid + 1
                   /\ \E created \in
                          FetchRow(SelectByName(table, collection_name, user_id)) :
                        ret' = call @@
                          [metadata |-> metadata,
                           status |-> IF created # None
                                        THEN "ok" ELSE "AssertionError",
                           value |-> Found(created)]
  /\ UNCHANGED <<pg_embedding, nextChunk, tasks>>

\* the same call as the three stretches between its awaits
\* existing = await self._get_by_name(...); raise 409 if existing
CreateCheck(t, user_id, collection_name) ==
  /\ tasks[t].pc = "idle"
  /\ nextUuid + Cardinality({x \in Tasks : tasks[x].pc = "insert"}) <= MaxUuid
  /\ \E existing \in
         FetchRow(SelectByName(pg_collection, collection_name, user_id)) :
       IF NameTaken(existing)
         THEN /\ ret' = [op |-> "create", user |-> user_id,
                         name |-> collection_name, status |-> "Conflict"]
              /\ UNCHANGED tasks
         ELSE /\ ret' = [op |-> "create_check", user |-> user_id,
                         name |-> collection_name, status |-> "pass"]
              /\ tasks' = [tasks EXCEPT ![t] =
                             [pc |-> "insert", user |-> user_id,
                              name |-> collection_name]]
  /\ UNCHANGED <<pg_collection, pg_embedding, nextUuid, nextChunk>>

\* the insert wrapped in try/except: a refused insert is passed over and the
\* call goes on to its fetch
CreateInsert_Swallow(t, metadata) ==
  /\ tasks[t].pc = "insert"
  /\ LET user_id == tasks[t].user
         collection_name == tasks[t].name
         row == NewCollection(nextUuid, collection_name,
                              CreateMetadata(user_id, metadata))
     IN /\ IF UniqueOwnerName(pg_collection \cup {row})
             THEN /\ pg_collection' = pg_collection \cup {row}
                  /\ nextUuid' = nextUuid + 1
             ELSE UNCHANGED <<pg_collection, nextUuid>>
        /\ tasks' = [tasks EXCEPT ![t].pc = "fetch"]
        /\ ret' = [op |-> "create_insert", user |-> user_id,
                   name |-> collection_name, metadata |-> metadata,
                   status |-> "inserted"]
  /\ UNCHANGED <<pg_embedding, nextChunk>>

\* get_vectorstore(collection_name, collection_metadata=metadata)
CreateInsert(t, metadata) ==
  /\ tasks[t].pc = "insert"
  /\ LET user_id == tasks[t].user
         collection_name == tasks[t].name
         row == NewCollection(nextUuid, collection_name,
                              CreateMetadata(user_id, metadata))
     IN IF UniqueOwnerName(pg_collection \cup {row})
          THEN /\ pg_collection' = pg_collection \cup {row}
               /\ nextUuid' = nextUuid + 1
               /\ tasks' = [tasks EXCEPT ![t].pc = "fetch"]
               /\ ret' = [op |-> "create_insert", user |-> user_id,
                          name |-> collection_name, metadata |-> metadata,
                          status |-> "inserted"]
          ELSE /\ tasks' = [tasks EXCEPT ![t] = Idle]
               /\ ret' = [op |-> "create", user |-> user_id,
                          name |-> collection_name,
                          status |-> "UniqueViolation"]
               /\ UNCHANGED <<pg_collection, nextUuid>>
  /\ UNCHANGED <<pg_embedding, nextChunk>>

\* created = await self._get_by_name(...); assert created; return created
CreateFetch(t) ==
  /\ tasks[t].pc = "fetch"
  /\ \E created \in
         FetchRow(SelectByName(pg_collection, tasks[t].name, tasks[t].user)) :
       ret' = [op |-> "create", user |-> tasks[t].user, name |-> tasks[t].name,
               status |-> IF created # None THEN "ok" ELSE "AssertionError",
               value |-> Found(created)]
  /\ tasks' = [tasks EXCEPT ![t] = Idle]
  /\ UNCHANGED <<pg_collection, pg_embedding, nextUuid, nextChunk>>

\* ----------------------------------------------------- Collections.update
\* "if metadata:" in place of "if metadata is not None:"
MetadataJson_Truthy(user_id, metadata) ==
  IF metadata # None /\ metadata[1] # EmptyDict
    THEN Some(JsonDumps(DictSet(metadata[1], "owner_id", user_id)))
    ELSE None

\* if metadata is not None: metadata = metadata.copy(); metadata["owner_id"] = user_id
\* metadata_json = json.dumps(metadata) if metadata is not None else None
MetadataJson(user_id, metadata) ==
  IF metadata # None
    THEN Some(JsonDumps(DictSet(metadata[1], "owner_id", user_id)))
    ELSE None

\* COALESCE($1, old)
Coalesce(arg, old) == IF arg # None THEN arg[1] ELSE old

\* name = COALESCE(name, $1) : the stored name always wins
SetRow_KeepName(r, new_name, metadata_json) ==
  [uuid |-> r.uuid,
   name |-> r.name,
   cmetadata |-> Coalesce(metadata_json, r.cmetadata)]

\* cmetadata = cmetadata || $2 : the new members merged into the old ones
SetRow_Merge(r, new_name, metadata_json) ==
  [uuid |-> r.uuid,
   name |-> IF new_name # None THEN new_name[1] ELSE r.name,
   cmetadata |-> IF metadata_json # None
                   THEN [kind |-> "object",
                         members |-> r.cmetadata.members
                                       \o metadata_json[1].members]
                   ELSE r.cmetadata]

\* UPDATE ... SET name = COALESCE($1, name), cmetadata = COALESCE($2::json, cmetadata)
SetRow(r, new_name, metadata_json) ==
  [uuid |-> r.uuid,
   name |-> Coalesce(new_name, r.name),
   cmetadata |-> Coalesce(metadata_json, r.cmetadata)]

Update(user_id, collection_id, new_name, metadata) ==
  LET metadata_json == MetadataJson(user_id, metadata)
      hit == SelectById(pg_collection, collection_id, user_id)
      updated == {SetRow(r, new_name, metadata_json) : r \in hit}
      table == (pg_collection \ hit) \cup updated
      call == [op |-> "update", user |-> user_id, id |-> collection_id,
               new_name |-> new_name]
  IN /\ IF ~UniqueOwnerName(table)
          THEN /\ ret' = call @@ [status |-> "UniqueViolation"]
               /\ UNCHANGED pg_collection
          ELSE /\ pg_collection' = table
               /\ \E rec \in FetchRow(updated) :
                    ret' = IF rec = None
                      THEN call @@ [status |-> "NotFound"]
                      ELSE call @@ [status |-> "ok", metadata |-> metadata,
                                    before |-> {Details(r) : r \in hit},
                                    value |-> Found(rec)]
     /\ UNCHANGED <<pg_embedding, nextUuid, nextChunk, tasks>>

\* ----------------------------------------------------- Collections.delete
\* DELETE FROM langchain_pg_collection WHERE uuid = $1 AND owner = $2
\* conn.execute returns the command tag "DELETE <n>"
ExecuteDelete(rows) == <<"DELETE", Cardinality(rows)>>

Delete(user_id, collection_id) ==
  LET hit == SelectById(pg_collection, collection_id, user_id)
      result == ExecuteDelete(hit)
      count == result[Len(result)]
  IN /\ pg_collection' = pg_collection \ hit
     /\ pg_embedding' = Cascade(pg_embedding, pg_collection \ hit)
     /\ ret' = [op |-> "delete", user |-> user_id, id |-> collection_id,
                status |-> IF count = 0 THEN "NotFound" ELSE "ok",
                deleted |-> {Details(r) : r \in hit},
                value |-> count]
     /\ UNCHANGED <<nextUuid, nextChunk, tasks>>

\* ------------------------------------------- add_documents_to_vectorstore
\* a langchain Document: its text and its metadata, which here holds the key
\* file_id or nothing
Document(page_content, file_id) ==
  [page_content |-> page_content, file_id |-> file_id]

DocMetadata(doc) ==
  IF doc.file_id = None THEN EmptyDict
                        ELSE [k \in {"file_id"} |-> doc.file_id[1]]

\* the ids the store generates and returns as strings
ChunkIdStr(i) == ToString(i)

\* store.add_documents(documents, ids=None): one row per document, the
\* generated ids returned in the order of the documents
AddDocuments(collection_name, documents) ==
  /\ nextChunk + Len(documents) - 1 <= MaxChunks
  /\ \E r \in SelectUuidByName(pg_collection, collection_name) :
       LET ids == [i \in DOMAIN documents |-> nextChunk + i - 1]
       IN /\ pg_embedding' = pg_embedding \cup
               {[id |-> ids[i], collection_id |-> r.uuid,
                 file_id |-> documents[i].file_id,
                 document |-> documents[i].page_content] :
                  i \in DOMAIN documents}
          /\ ret' = [op |-> "add_documents", name |-> collection_name,
                     collection_uuid |-> r.uuid, documents |-> documents,
                     value |-> [i \in DOMAIN documents |-> ChunkIdStr(ids[i])]]
  /\ nextChunk' = nextChunk + Len(documents)
  /\ UNCHANGED <<pg_collection, nextUuid, tasks>>

\* ------------------------------------------ list_documents_in_vectorstore
\* the same SELECT without DISTINCT ON: every chunk that has a file_id
UniqueFileChunks_All(chunks, collection_uuid) ==
  {c \in chunks : c.collection_id = collection_uuid /\ c.file_id # None}

\* SELECT DISTINCT ON (file_id) id ... WHERE collection_id = $1
\*    AND file_id IS NOT NULL ORDER BY file_id, id
UniqueFileChunks(chunks, collection_uuid) ==
  LET mine == {c \in chunks :
                 c.collection_id = collection_uuid /\ c.file_id # None}
  IN {c \in mine :
        \A d \in mine : d.file_id = c.file_id => c.id <= d.id}

\* ORDER BY ufc.file_id
OrderByFileId(rows) ==
  {s \in [1..Cardinality(rows) -> rows] :
     /\ \A i \in DOMAIN s : \A j \in DOMAIN s : s[i] = s[j] => i = j
     /\ \A i \in DOMAIN s : \A j \in DOMAIN s :
          i < j => FileRank(s[i].file_id[1]) <= FileRank(s[j].file_id[1])}

\* LIMIT $2 with the OFFSET left out
LimitOffset_NoOffset(s, limit, offset) ==
  SubSeq(s, 1, IF limit < Len(s) THEN limit ELSE Len(s))

\* LIMIT $2 OFFSET $3
LimitOffset(s, limit, offset) ==
  SubSeq(s, offset + 1, IF offset + limit < Len(s) THEN offset + limit ELSE Len(s))

ListDocuments(user_id, collection_name, limit, offset) ==
  /\ \E collection_record \in
         FetchRow(SelectUuidByName(pg_collection, collection_name)) :
       LET call == [op |-> "list_documents", user |-> user_id,
                    name |-> collection_name, limit |-> limit,
                    offset |-> offset]
       IN IF collection_record = None
            THEN ret' = call @@ [collection_uuid |-> 0, value |-> <<>>]
            ELSE LET collection_uuid == collection_record[1].uuid
                 IN \E s \in OrderByFileId(
                                UniqueFileChunks(pg_embedding, collection_uuid)) :
                      ret' = call @@
                        [collection_uuid |-> collection_uuid,
                         value |-> [i \in DOMAIN LimitOffset(s, limit, offset) |->
                                      [id |-> LimitOffset(s, limit, offset)[i].id,
                                       file_id |-> LimitOffset(s, limit, offset)[i].file_id,
                                       collection_id |-> UuidStr(collection_uuid)]]]
  /\ UNCHANGED <<pg_collection, pg_embedding, nextUuid, nextChunk, tasks>>

\* ------------------------------------------ get_document_from_vectorstore
\* the columns of langchain_pg_embedding: a chunk has one identifier, id
EmbeddingColumns == {"id", "collection_id", "embedding", "document", "cmetadata"}

\* the cmetadata column of a chunk as the driver delivers it: JSON text
ChunkMetadataJson(c) ==
  [kind |-> "object",
   members |-> IF c.file_id = None THEN <<>>
                                   ELSE <<<<"file_id", c.file_id[1]>>>>]

\* uuid.UUID(document_id): None stands for ValueError
ParseUuid(document_id) ==
  IF \E i \in 1..MaxChunks : ChunkIdStr(i) = document_id
    THEN Some(CHOOSE i \in 1..MaxChunks : ChunkIdStr(i) = document_id)
    ELSE None

\* SELECT ... FROM langchain_pg_embedding WHERE <column> = $1; None stands for
\* the error of a column the table does not have
SelectChunkWhere(chunks, column, key) ==
  IF column \in EmbeddingColumns THEN Some({c \in chunks : c.id = key})
                                 ELSE None

GetDocument(document_id) ==
  LET doc_uuid == ParseUuid(document_id)
      call == [op |-> "get_document", id |-> document_id]
  IN /\ IF doc_uuid = None
          THEN ret' = call @@ [status |-> "ValueError", value |-> None]
          ELSE LET rows == SelectChunkWhere(pg_embedding, "uuid", doc_uuid[1])
               IN IF rows = None
                    THEN ret' = call @@ [status |-> "Exception",
                                         value |-> None]
                    ELSE \E record \in FetchRow(rows[1]) :
                           ret' = call @@
                             [status |-> "ok",
                              value |->
                                IF record = None THEN None
                                ELSE Some([id |-> ChunkIdStr(record[1].id),
                                           content |-> record[1].document,
                                           metadata |->
                                             ChunkMetadataJson(record[1])])]
     /\ UNCHANGED <<pg_collection, pg_embedding, nextUuid, nextChunk, tasks>>

\* -------------------------------------- delete_documents_from_vectorstore
\* the same DELETE without collection_id = $1
DeleteChunks_AnyCollection(chunks, collection_uuid, file_ids) ==
  {c \in chunks : ~(c.file_id # None /\ c.file_id[1] \in file_ids)}

\* DELETE FROM langchain_pg_embedding
\*  WHERE collection_id = $1 AND cmetadata->>'file_id' = ANY($2::text[])
DeleteChunks(chunks, collection_uuid, file_ids) ==
  {c \in chunks :
     ~(c.collection_id = collection_uuid
         /\ c.file_id # None /\ c.file_id[1] \in file_ids)}

\* the early return left out
NothingToDelete_Never(file_ids) == FALSE

\* if not file_ids: return True
NothingToDelete(file_ids) == file_ids = {}

DeleteDocuments(user_id, collection_name, file_ids) ==
  LET call == [op |-> "delete_documents", user |-> user_id,
               name |-> collection_name, file_ids |-> file_ids]
  IN /\ IF NothingToDelete(file_ids)
          THEN /\ ret' = call @@ [collection_uuid |-> 0, deleted_count |-> 0,
                                  value |-> TRUE]
               /\ UNCHANGED pg_embedding
          ELSE \E collection_record \in
                   FetchRow(SelectUuidByName(pg_collection, collection_name)) :
                 IF collection_record = None
                   THEN /\ ret' = call @@ [collection_uuid |-> 0,
                                           deleted_count |-> 0, value |-> FALSE]
                        /\ UNCHANGED pg_embedding
                   ELSE LET collection_uuid == collection_record[1].uuid
                            kept == DeleteChunks(pg_embedding, collection_uuid,
                                                 file_ids)
                            result == ExecuteDelete(pg_embedding \ kept)
                        IN /\ pg_embedding' = kept
                           /\ ret' = call @@
                                [collection_uuid |-> collection_uuid,
                                 deleted_count |-> result[Len(result)],
                                 value |-> TRUE]
     /\ UNCHANGED <<pg_collection, nextUuid, nextChunk, tasks>>

\* the same call when a statement raises (connection lost, relation missing):
\* the statement has no effect and both except clauses return False
DeleteDocumentsFails(user_id, collection_name, file_ids, error) ==
  /\ ~NothingToDelete(file_ids)
  /\ ret' = [op |-> "delete_documents", user |-> user_id,
             name |-> collection_name, file_ids |-> file_ids,
             collection_uuid |-> 0, deleted_count |-> 0, value |-> FALSE,
             fault |-> error, raised |-> None]
  /\ UNCHANGED <<pg_collection, pg_embedding, nextUuid, nextChunk, tasks>>

\* --------------------------------------------------- a statement that raises
\* asyncpg's UndefinedTableError, and any other error of the connection or of
\* the execution of a query
BackendErrors == {"UndefinedTableError", "ConnectionFailure"}

\* the methods of Collections have no except clause: the error leaves them
CollectionsFails(op, user_id, error) ==
  /\ ret' = [op |-> op, user |-> user_id, fault |-> error,
             raised |-> Some(error)]
  /\ UNCHANGED <<pg_collection, pg_embedding, nextUuid, nextChunk, tasks>>

\* add_documents_to_vectorstore and search_documents_in_vectorstore have none
\* either
StoreCallFails(op, collection_name, error) ==
  /\ ret' = [op |-> op, name |-> collection_name, fault |-> error,
             raised |-> Some(error)]
  /\ UNCHANGED <<pg_collection, pg_embedding, nextUuid, nextChunk, tasks>>

\* list_documents_in_vectorstore: except UndefinedTableError: return []
\*                                except Exception: return []
ListDocumentsFails(user_id, collection_name, limit, offset, error) ==
  /\ ret' = [op |-> "list_documents", user |-> user_id,
             name |-> collection_name, limit |-> limit, offset |-> offset,
             collection_uuid |-> 0, value |-> <<>>,
             fault |-> error, raised |-> None]
  /\ UNCHANGED <<pg_collection, pg_embedding, nextUuid, nextChunk, tasks>>

\* get_document_from_vectorstore: except Exception: return None
GetDocumentFails(document_id, error) ==
  /\ ParseUuid(document_id) # None
  /\ ret' = [op |-> "get_document", id |-> document_id,
             status |-> "Exception", value |-> None,
             fault |-> error, raised |-> None]
  /\ UNCHANGED <<pg_collection, pg_embedding, nextUuid, nextChunk, tasks>>

\* ---------------------------------------- search_documents_in_vectorstore
\* the metadata of a stored document as the store hands it back
HitMetadata ==
  {EmptyDict,
   [k \in {"uuid"} |-> "c2"],
   [k \in {"uuid", "id"} |-> IF k = "uuid" THEN "" ELSE "c1"]}

Hits ==
  {<<[page_content |-> p, metadata |-> m], score>> :
     p \in {"p1", "p2"}, m \in HitMetadata, score \in 1..MaxScore}

\* store.similarity_search_with_score(query, k=limit): at most k pairs of a
\* document and its distance, the nearest first
SimilaritySearchWithScore(k) ==
  UNION {{r \in [1..n -> Hits] :
            \A i \in 1..n : \A j \in 1..n : i < j => r[i][2] <= r[j][2]} :
         n \in 0..k}

\* a value Python takes as true
Truthy(m, key) == key \in DOMAIN m /\ m[key] # ""

\* doc.metadata.get("uuid") or doc.metadata.get("id")
DocId(m) ==
  IF Truthy(m, "uuid") THEN Some(m["uuid"])
  ELSE IF "id" \in DOMAIN m THEN Some(m["id"])
  ELSE None

\* the loop with "if not doc_id: continue" in it
RECURSIVE FormatResults_SkipNoId(_)
FormatResults_SkipNoId(results) ==
  IF results = <<>> THEN <<>>
  ELSE LET doc == Head(results)[1]
           score == Head(results)[2]
           doc_id == DocId(doc.metadata)
       IN (IF doc_id # None /\ doc_id[1] # ""
             THEN <<[id |-> doc_id,
                     page_content |-> doc.page_content,
                     metadata |-> doc.metadata,
                     score |-> score]>>
             ELSE <<>>)
            \o FormatResults_SkipNoId(Tail(results))

\* for doc, score in results_with_scores: formatted_results.append({...})
RECURSIVE FormatResults(_)
FormatResults(results) ==
  IF results = <<>> THEN <<>>
  ELSE LET doc == Head(results)[1]
           score == Head(results)[2]
           doc_id == DocId(doc.metadata)
       IN <<[id |-> IF doc_id # None /\ doc_id[1] # "" THEN doc_id ELSE None,
             page_content |-> doc.page_content,
             metadata |-> doc.metadata,
             score |-> score]>>
            \o FormatResults(Tail(results))

Search(limit) ==
  /\ \E results_with_scores \in SimilaritySearchWithScore(limit) :
       ret' = [op |-> "search", limit |-> limit,
               results_with_scores |-> results_with_scores,
               value |-> FormatResults(results_with_scores)]
  /\ UNCHANGED <<pg_collection, pg_embedding, nextUuid, nextChunk, tasks>>

\* ------------------------------------------------------- _parse_metadata
\* what the driver can hand back for the cmetadata column
MemberPairs == {<<k, v>> : k \in {"a", "owner_id"}, v \in {"1"} \cup Users}
ObjectTexts ==
  {[kind |-> "object", members |-> ms] :
     ms \in UNION {[1..n -> MemberPairs] : n \in 0..MaxMembers}}
RawInputs ==
  {None}
    \cup {Some(t) : t \in ObjectTexts}
    \cup {Some(NullText), Some(InvalidText),
          Some(ArrayText(<<>>)), Some(ArrayText(<<"1">>))}
    \cup {Some(d) : d \in Dicts}
    \cup {Some(PyList(<<"1">>))}

ParseMetadataCall(raw) ==
  /\ ret' = [op |-> "parse_metadata", raw |-> raw, value |-> ParseMetadata(raw)]
  /\ UNCHANGED <<pg_collection, pg_embedding, nextUuid, nextChunk, tasks>>

\* ------------------------------------- async with get_db_connection()
\* a call that holds a pooled connection, as the stretches between its awaits:
\* update and delete of Collections, delete_documents_from_vectorstore
ConnectionCalls ==
  {[op |-> "update", user |-> u, id |-> id, new_name |-> Some(n)] :
     u \in Users, id \in UuidStrs, n \in Names}
    \cup {[op |-> "delete", user |-> u, id |-> id] :
            u \in Users, id \in UuidStrs}
    \cup {[op |-> "delete_documents", name |-> n, file_ids |-> {FilePool[1]}] :
            n \in Names}

\* the tasks that have a connection of the pool checked out
CheckedOut == {t \in Tasks : "conn" \in DOMAIN tasks[t] /\ tasks[t].conn}

\* what the context manager does on the way out: the connection goes back
Release(task) == [task EXCEPT !.conn = FALSE]

\* async with get_db_connection() as conn: the connection is checked out
EnterBlock(t, call) ==
  /\ tasks[t].pc = "idle"
  /\ tasks' = [tasks EXCEPT ![t] =
                 [pc |-> "block", user |-> "", name |-> "", call |-> call,
                  collection_uuid |-> 0, conn |-> TRUE]]
  /\ ret' = [op |-> "acquire"]
  /\ UNCHANGED <<pg_collection, pg_embedding, nextUuid, nextChunk>>

\* the block is left with an outcome: a value or an exception
Leave(t, outcome) ==
  tasks' = [tasks EXCEPT ![t] =
              [pc |-> "leaving", user |-> "", name |-> "",
               call |-> tasks[t].call, outcome |-> outcome, conn |-> tasks[t].conn]]

\* rec = await conn.fetchrow(UPDATE ...)
UpdateStatement(t, fails) ==
  /\ tasks[t].pc = "block"
  /\ tasks[t].call.op = "update"
  /\ LET call == tasks[t].call
         hit == SelectById(pg_collection, call.id, call.user)
         updated == {SetRow(r, call.new_name, None) : r \in hit}
         table == (pg_collection \ hit) \cup updated
     IN IF fails
          THEN /\ Leave(t, [raised |-> Some("ConnectionFailure")])
               /\ UNCHANGED pg_collection
          ELSE IF ~UniqueOwnerName(table)
            THEN /\ Leave(t, [raised |-> Some("UniqueViolation")])
                 /\ UNCHANGED pg_collection
            ELSE /\ pg_collection' = table
                 /\ \E rec \in FetchRow(updated) :
                      Leave(t, [raised |-> None, found |-> rec # None])
  /\ ret' = [op |-> "await"]
  /\ UNCHANGED <<pg_embedding, nextUuid, nextChunk>>

\* result = await conn.execute(DELETE FROM langchain_pg_collection ...)
DeleteStatement(t, fails) ==
  /\ tasks[t].pc = "block"
  /\ tasks[t].call.op = "delete"
  /\ LET call == tasks[t].call
         hit == SelectById(pg_collection, call.id, call.user)
     IN IF fails
          THEN /\ Leave(t, [raised |-> Some("ConnectionFailure")])
               /\ UNCHANGED <<pg_collection, pg_embedding>>
          ELSE /\ pg_collection' = pg_collection \ hit
               /\ pg_embedding' = Cascade(pg_embedding, pg_collection \ hit)
               /\ Leave(t, [raised |-> None, found |-> hit # {}])
  /\ ret' = [op |-> "await"]
  /\ UNCHANGED <<nextUuid, nextChunk>>

\* collection_record = await conn.fetchrow(SELECT uuid ... WHERE name = $1)
\* if not collection_record: return False
ResolveStatement(t, fails) ==
  /\ tasks[t].pc = "block"
  /\ tasks[t].call.op = "delete_documents"
  /\ tasks[t].collection_uuid = 0
  /\ IF fails
       THEN Leave(t, [raised |-> Some("ConnectionFailure")])
       ELSE \E collection_record \in
                FetchRow(SelectUuidByName(pg_collection, tasks[t].call.name)) :
              IF collection_record = None
                THEN Leave(t, [raised |-> None, found |-> FALSE])
                ELSE tasks' = [tasks EXCEPT ![t].collection_uuid =
                                              collection_record[1].uuid]
  /\ ret' = [op |-> "await"]
  /\ UNCHANGED <<pg_collection, pg_embedding, nextUuid, nextChunk>>

\* result = await conn.execute(DELETE FROM langchain_pg_embedding ...)
\* return True
DeleteChunksStatement(t, fails) ==
  /\ tasks[t].pc = "block"
  /\ tasks[t].call.op = "delete_documents"
  /\ tasks[t].collection_uuid # 0
  /\ IF fails
       THEN /\ Leave(t, [raised |-> Some("ConnectionFailure")])
            /\ UNCHANGED pg_embedding
       ELSE /\ pg_embedding' = DeleteChunks(pg_embedding,
                                            tasks[t].collection_uuid,
                                            tasks[t].call.file_ids)
            /\ Leave(t, [raised |-> None, found |-> TRUE])
  /\ ret' = [op |-> "await"]
  /\ UNCHANGED <<pg_collection, nextUuid, nextChunk>>

\* what the call hands to its caller once the block is left
CallResult(call, outcome) ==
  IF call.op = "delete_documents"
    THEN [op |-> call.op, value |-> outcome.raised = None /\ outcome.found]
    ELSE [op |-> call.op,
          status |-> IF outcome.raised # None THEN outcome.raised[1]
                     ELSE IF outcome.found THEN "ok" ELSE "NotFound"]

\* a connection handed back by hand after the statement, with no finally: an
\* exception passes the release by
ExitBlock_LeakOnError(t) ==
  /\ tasks[t].pc = "leaving"
  /\ tasks' = [tasks EXCEPT ![t] =
                 [pc |-> "idle", user |-> "", name |-> "",
                  conn |-> tasks[t].outcome.raised # None]]
  /\ ret' = CallResult(tasks[t].call, tasks[t].outcome)
  /\ UNCHANGED <<pg_collection, pg_embedding, nextUuid, nextChunk>>

\* the end of the async with block, reached by a return, by falling off its
\* end and by an exception alike; the call then returns or raises
ExitBlock(t) ==
  /\ tasks[t].pc = "leaving"
  /\ tasks' = [tasks EXCEPT ![t] =
                 Release([pc |-> "idle", user |-> "", name |-> "",
                          conn |-> tasks[t].conn])]
  /\ ret' = CallResult(tasks[t].call, tasks[t].outcome)
  /\ UNCHANGED <<pg_collection, pg_embedding, nextUuid, nextChunk>>

\* ------------------------------------------------------------------- Next
OptNames == {None} \cup {Some(n) : n \in Names}
OptMeta == {None} \cup {Some(m) : m \in MetaInputs}
OptFiles == {None} \cup {Some(f) : f \in FileIds}
Limits == {1, 10}
Offsets == {0, 1}

\* requests served one after the other
Next ==
  \/ \E u \in Users : List(u)
  \/ \E u \in Users, id \in UuidStrs : Get(u, id)
  \/ \E u \in Users, n \in Names : GetByName(u, n)
  \/ \E u \in Users, n \in Names, m \in OptMeta : Create(u, n, m)
  \/ \E u \in Users, id \in UuidStrs, n \in OptNames, m \in OptMeta :
       Update(u, id, n, m)
  \/ \E u \in Users, id \in UuidStrs : Delete(u, id)
  \/ \E n \in Names : /\ nextChunk <= MaxRegistryChunks
       /\ AddDocuments(n, <<Document("p1", None)>>)

Spec == Init /\ [][Next]_vars

\* requests running concurrently: a create is suspended at its awaits
NextInterleaved ==
  \/ \E t \in Tasks, u \in Users, n \in Names : CreateCheck(t, u, n)
  \/ \E t \in Tasks, m \in {None} : CreateInsert(t, m)
  \/ \E t \in Tasks : CreateFetch(t)
  \/ \E u \in Users, id \in UuidStrs, n \in OptNames : Update(u, id, n, None)
  \/ \E u \in Users, id \in UuidStrs : Delete(u, id)

SpecInterleaved == Init /\ [][NextInterleaved]_vars

\* creates racing one another and nothing else
NextCreateRace ==
  \/ \E t \in Tasks, u \in Users, n \in Names : CreateCheck(t, u, n)
  \/ \E t \in Tasks, m \in OptMeta : CreateInsert(t, m)
  \/ \E t \in Tasks : CreateFetch(t)

SpecCreateRace == Init /\ [][NextCreateRace]_vars

\* the document view over the collections of several owners
NextDocuments ==
  \/ \E u \in Users, n \in Names : Create(u, n, None)
  \/ \E n \in Names, f \in OptFiles : AddDocuments(n, <<Document("p1", f)>>)
  \/ \E u \in Users, n \in Names, l \in Limits, o \in Offsets :
       ListDocuments(u, n, l, o)
  \/ \E u \in Users, n \in Names, fs \in SUBSET FileIds :
       DeleteDocuments(u, n, fs)
  \/ \E u \in Users, n \in Names, fs \in SUBSET FileIds :
       DeleteDocumentsFails(u, n, fs, "ConnectionFailure")
  \/ \E u \in Users, id \in UuidStrs : Delete(u, id)

SpecDocuments == Init /\ [][NextDocuments]_vars

\* documents of several texts stored in one call and fetched back by id
Contents == {"p1", "p2"}
Documents == {Document(p, f) : p \in Contents, f \in {None, Some(FilePool[1])}}
DocumentLists ==
  {<<d>> : d \in Documents} \cup {<<d, e>> : d \in Documents, e \in Documents}
DocumentIds == {ChunkIdStr(i) : i \in 1..MaxChunks} \cup {"not-a-uuid"}

NextRoundTrip ==
  \/ \E u \in Users, n \in Names : Create(u, n, None)
  \/ \E n \in Names, docs \in DocumentLists : AddDocuments(n, docs)
  \/ \E document_id \in DocumentIds : GetDocument(document_id)

SpecRoundTrip == Init /\ [][NextRoundTrip]_vars

\* searches, whatever the store holds
NextSearch == \E limit \in 1..MaxHits : Search(limit)

SpecSearch == Init /\ [][NextSearch]_vars

\* the normalization applied to every raw value
NextParse == \E raw \in RawInputs : ParseMetadataCall(raw)

SpecParse == Init /\ [][NextParse]_vars

\* every operation with a backend that fails under it
NextFailures ==
  \/ \E u \in Users, n \in Names : Create(u, n, None)
  \/ \E op \in {"list", "get", "create", "update", "delete"},
        u \in Users, e \in BackendErrors : CollectionsFails(op, u, e)
  \/ \E op \in {"add_documents", "search"}, n \in Names, e \in BackendErrors :
       StoreCallFails(op, n, e)
  \/ \E u \in Users, n \in Names, l \in Limits, o \in Offsets,
        e \in BackendErrors : ListDocumentsFails(u, n, l, o, e)
  \/ \E document_id \in DocumentIds, e \in BackendErrors :
       GetDocumentFails(document_id, e)
  \/ \E u \in Users, n \in Names, fs \in SUBSET FileIds, e \in BackendErrors :
       DeleteDocumentsFails(u, n, fs, e)

SpecFailures == Init /\ [][NextFailures]_vars

\* calls that hold a connection, interleaved at their awaits
NextConnections ==
  \/ \E u \in Users, n \in Names : Create(u, n, None)
  \/ \E n \in Names :
       /\ nextChunk <= MaxRegistryChunks
       /\ AddDocuments(n, <<Document("p1", Some(FilePool[1]))>>)
  \/ \E t \in Tasks, call \in ConnectionCalls : EnterBlock(t, call)
  \/ \E t \in Tasks, fails \in BOOLEAN : UpdateStatement(t, fails)
  \/ \E t \in Tasks, fails \in BOOLEAN : DeleteStatement(t, fails)
  \/ \E t \in Tasks, fails \in BOOLEAN : ResolveStatement(t, fails)
  \/ \E t \in Tasks, fails \in BOOLEAN : DeleteChunksStatement(t, fails)
  \/ \E t \in Tasks : ExitBlock(t)

SpecConnections == Init /\ [][NextConnections]_vars

\* ------------------------------------------------------------ properties
\* what a row's stored metadata says, read the way the registry surfaces it
StoredMetadata(r) == ParseMetadata(Some(r.cmetadata))
OwnerOf(r) ==
  IF "owner_id" \in DOMAIN StoredMetadata(r)
    THEN StoredMetadata(r)["owner_id"] ELSE ""
OwnedRows(table, u) == {r \in table : OwnerOf(r) = u}
OwnsName(u, n) == \E r \in pg_collection : r.name = n /\ OwnerOf(r) = u
OwnsId(u, id) == \E r \in pg_collection : UuidStr(r.uuid) = id /\ OwnerOf(r) = u
UsedOnlyByOthers(u, n) ==
  ~OwnsName(u, n) /\ \E r \in pg_collection : r.name = n
LookupByName(table, u, n) ==
  {Found(rec) : rec \in FetchRow(SelectByName(table, n, u))}
LookupById(table, u, id) ==
  {Found(rec) : rec \in FetchRow(SelectById(table, id, u))}

\* C1: list(u) returns exactly the collections whose stored owner_id is u,
\* each once, in ascending order of name (so nothing when u owns none).
C1_ListOwnedSorted ==
  ret.op = "list" =>
    LET mine == OwnedRows(pg_collection, ret.user)
    IN /\ Len(ret.value) = Cardinality(mine)
       /\ {ret.value[i] : i \in DOMAIN ret.value} = {Details(r) : r \in mine}
       /\ \A i \in DOMAIN ret.value : \A j \in DOMAIN ret.value :
            i < j => NameRank(ret.value[i].name) <= NameRank(ret.value[j].name)

\* two collections of one user listed against their order of creation
C1_Witness ==
  /\ ret.op = "list"
  /\ Len(ret.value) = 2
  /\ ret.value[1].uuid = UuidStr(2)

\* C2: a lookup by id or by name answers not-found for a collection of another
\* owner, and answers exactly what it would answer were the other owners'
\* collections not there at all.
C2_ForeignLooksAbsent ==
  /\ ret.op = "get" =>
       /\ ret.value \in LookupById(OwnedRows(pg_collection, ret.user),
                                   ret.user, ret.id)
       /\ ~OwnsId(ret.user, ret.id) => ret.value = None
  /\ ret.op = "get_by_name" =>
       /\ ret.value \in LookupByName(OwnedRows(pg_collection, ret.user),
                                     ret.user, ret.name)
       /\ ~OwnsName(ret.user, ret.name) => ret.value = None

\* a get for the id of a collection that exists and is someone else's
C2_Witness ==
  /\ ret.op = "get"
  /\ ret.value = None
  /\ \E r \in pg_collection : UuidStr(r.uuid) = ret.id /\ OwnerOf(r) # ret.user

\* C3: the name-to-id resolution of listDocuments and deleteByFile applies the
\* ownership filter: a caller who owns a collection of that name never gets
\* chunks listed or deleted from a collection of another owner.
C3_DocumentsOwnerFiltered ==
  (/\ ret.op \in {"list_documents", "delete_documents"}
   /\ OwnsName(ret.user, ret.name)
   /\ IF ret.op = "list_documents"
        THEN ret.value # <<>> ELSE ret.deleted_count > 0)
  => \A r \in pg_collection :
       r.uuid = ret.collection_uuid => OwnerOf(r) = ret.user

C5_CreateConflictNoEffect ==
  [][(ret'.op = "create" /\ OwnsName(ret'.user, ret'.name))
       => /\ ret'.status = "Conflict"
          /\ pg_collection' = pg_collection
          /\ pg_embedding' = pg_embedding]_vars

\* a refused create in a state that holds a chunk
C5_Witness ==
  /\ ret.op = "create"
  /\ ret.status = "Conflict"
  /\ pg_embedding # {}

\* C6: a name in use only by other owners is free for u: create(u, n) succeeds
\* with a new collection owned by u, update(u, id, new_name = n) of a collection
\* of u succeeds, the other owners' collections stay, and afterwards every
\* owner's lookup by n gives that owner's own collection.
C6_NamePerOwner ==
  [][LET n == IF ret'.op = "create" THEN ret'.name ELSE ret'.new_name[1]
         free ==
           \/ ret'.op = "create" /\ UsedOnlyByOthers(ret'.user, ret'.name)
           \/ /\ ret'.op = "update"
              /\ OwnsId(ret'.user, ret'.id)
              /\ ret'.new_name # None
              /\ UsedOnlyByOthers(ret'.user, ret'.new_name[1])
     IN free =>
          /\ ret'.status = "ok"
          /\ ret'.value # None
          /\ ret'.value[1].name = n
          /\ ret'.value[1].metadata["owner_id"] = ret'.user
          /\ IF ret'.op = "create"
               THEN \A r \in pg_collection : UuidStr(r.uuid) # ret'.value[1].uuid
               ELSE ret'.value[1].uuid = ret'.id
          /\ \A r \in pg_collection :
               OwnerOf(r) # ret'.user => r \in pg_collection'
          /\ \A v \in Users :
               LookupByName(pg_collection', v, n) =
                 IF v = ret'.user THEN {ret'.value}
                 ELSE IF \E r \in pg_collection : r.name = n /\ OwnerOf(r) = v
                   THEN {Some(Details(r)) :
                           r \in {x \in pg_collection :
                                    x.name = n /\ OwnerOf(x) = v}}
                   ELSE {None}]_vars

\* a rename to a name another owner uses went through
C6_Witness ==
  /\ ret.op = "update"
  /\ ret.status = "ok"
  /\ ret.new_name # None
  /\ \E b \in ret.before : b.name # ret.new_name[1]
  /\ \E r \in pg_collection : r.name = ret.new_name[1] /\ OwnerOf(r) # ret.user

C9_PartialUpdate ==
  (ret.op = "update" /\ ret.status = "ok") =>
    \A b \in ret.before : \A r \in pg_collection :
      UuidStr(r.uuid) = ret.id =>
        /\ ret.value = Some(Details(r))
        /\ ret.new_name = None => r.name = b.name
        /\ ret.metadata = None => StoredMetadata(r) = b.metadata
        /\ ret.metadata = Some(EmptyDict) =>
             StoredMetadata(r) = [k \in {"owner_id"} |-> ret.user]

\* an empty metadata map sent to a collection whose metadata had the key a
C9_Witness ==
  /\ ret.op = "update"
  /\ ret.status = "ok"
  /\ ret.new_name = None
  /\ ret.metadata = Some(EmptyDict)
  /\ \E b \in ret.before : "a" \in DOMAIN b.metadata

\* C10: update and delete on an id that does not exist or is another user's
\* signal NotFound and change no row and no chunk; the owner's own get, delete
\* and update (not renaming onto another collection of theirs) succeed.
C10_NotFoundNoEffect ==
  [][/\ (ret'.op \in {"update", "delete"} /\ ~OwnsId(ret'.user, ret'.id))
          => /\ ret'.status = "NotFound"
             /\ pg_collection' = pg_collection
             /\ pg_embedding' = pg_embedding
     /\ (ret'.op = "get" /\ OwnsId(ret'.user, ret'.id))
          => ret'.value # None /\ ret'.value[1].uuid = ret'.id
     /\ (ret'.op = "delete" /\ OwnsId(ret'.user, ret'.id))
          => ret'.status = "ok" /\ ret'.value = 1
     /\ (/\ ret'.op = "update"
         /\ OwnsId(ret'.user, ret'.id)
         /\ \/ ret'.new_name = None
            \/ \A r \in pg_collection :
                 (r.name = ret'.new_name[1] /\ OwnerOf(r) = ret'.user)
                   => UuidStr(r.uuid) = ret'.id)
          => ret'.status = "ok" /\ ret'.value[1].uuid = ret'.id]_vars

\* a delete aimed at another user's collection, which holds a chunk
C10_Witness ==
  /\ ret.op = "delete"
  /\ ret.status = "NotFound"
  /\ \E r \in pg_collection :
       /\ UuidStr(r.uuid) = ret.id
       /\ OwnerOf(r) # ret.user
       /\ \E c \in pg_embedding : c.collection_id = r.uuid

\* C11: an update that renames a collection to the name of a different
\* collection of the same user is refused with the storage's uniqueness
\* violation (the Conflict signal of a rename), and no row and no chunk
\* changes: the collection keeps its name and its metadata.
C11_RenameConflictNoEffect ==
  [][(/\ ret'.op = "update"
      /\ OwnsId(ret'.user, ret'.id)
      /\ ret'.new_name # None
      /\ \E r \in pg_collection :
           /\ r.name = ret'.new_name[1]
           /\ OwnerOf(r) = ret'.user
           /\ UuidStr(r.uuid) # ret'.id)
       => /\ ret'.status = "UniqueViolation"
          /\ pg_collection' = pg_collection
          /\ pg_embedding' = pg_embedding]_vars

\* a refused rename between two collections of one user
C11_Witness ==
  /\ ret.op = "update"
  /\ ret.status = "UniqueViolation"
  /\ ret.new_name # None
  /\ \E r \in pg_collection, q \in pg_collection :
       /\ UuidStr(r.uuid) = ret.id
       /\ q.uuid # r.uuid
       /\ q.name = ret.new_name[1]
       /\ r.name # q.name
       /\ OwnerOf(r) = ret.user
       /\ OwnerOf(q) = ret.user

\* C12: delete on a collection the caller owns removes that row and no other
\* and returns 1, after which get answers not-found; the same delete repeated
\* right after finds no row, signals NotFound and changes nothing.
C12_DeleteOnceThenNotFound ==
  [][/\ (ret'.op = "delete" /\ OwnsId(ret'.user, ret'.id))
          => /\ ret'.status = "ok"
             /\ ret'.value = 1
             /\ pg_collection' =
                  {r \in pg_collection : UuidStr(r.uuid) # ret'.id}
             /\ Cardinality(pg_collection') = Cardinality(pg_collection) - 1
             /\ LookupById(pg_collection', ret'.user, ret'.id) = {None}
     /\ (/\ ret.op = "delete"
         /\ ret.status = "ok"
         /\ ret'.op = "delete"
         /\ ret'.user = ret.user
         /\ ret'.id = ret.id)
          => /\ ret'.status = "NotFound"
             /\ pg_collection' = pg_collection
             /\ pg_embedding' = pg_embedding
     /\ (ret.op = "delete" /\ ret.status = "ok" /\ ret'.op = "get"
         /\ ret'.user = ret.user /\ ret'.id = ret.id)
          => ret'.value = None]_vars

\* a delete of a collection that was created and is already gone, while
\* another collection is still there
C12_Witness ==
  /\ ret.op = "delete"
  /\ ret.status = "NotFound"
  /\ \E i \in Uuids :
       /\ UuidStr(i) = ret.id
       /\ i < nextUuid
       /\ \A r \in pg_collection : r.uuid # i
  /\ pg_collection # {}

\* C13: deleting a collection removes all its chunks: every chunk refers to a
\* collection that exists, after a successful delete no chunk of that id is
\* left, and a listDocuments by the same user on the name of the collection
\* just deleted returns the empty sequence.
C13_DeleteCascades ==
  [][/\ \A c \in pg_embedding' :
          \E r \in pg_collection' : r.uuid = c.collection_id
     /\ (ret'.op = "delete" /\ ret'.status = "ok")
          => \A c \in pg_embedding' : UuidStr(c.collection_id) # ret'.id
     /\ (/\ ret.op = "delete"
         /\ ret.status = "ok"
         /\ ret'.op = "list_documents"
         /\ ret'.user = ret.user
         /\ \E d \in ret.deleted : d.name = ret'.name)
          => ret'.value = <<>>]_vars

\* the file ids present among the chunks of a collection
FilesOf(chunks, collection_uuid) ==
  {c.file_id[1] : c \in {d \in chunks : d.collection_id = collection_uuid
                                          /\ d.file_id # None}}

\* C14: listDocuments returns at most one entry per file_id present among the
\* chunks of the collection it resolved, that entry being the chunk of lowest
\* id with that file_id; chunks without a file_id and chunks of other
\* collections never appear, and a name that resolves to nothing lists nothing.
C14_OneEntryPerFile ==
  ret.op = "list_documents" =>
    /\ ret.collection_uuid = 0 => ret.value = <<>>
    /\ \A i \in DOMAIN ret.value : \A j \in DOMAIN ret.value :
         ret.value[i].file_id = ret.value[j].file_id => i = j
    /\ \A i \in DOMAIN ret.value :
         /\ ret.value[i].file_id # None
         /\ ret.value[i].collection_id = UuidStr(ret.collection_uuid)
         /\ \E c \in pg_embedding :
              /\ c.id = ret.value[i].id
              /\ c.collection_id = ret.collection_uuid
              /\ c.file_id = ret.value[i].file_id
              /\ \A d \in pg_embedding :
                   (d.collection_id = c.collection_id /\ d.file_id = c.file_id)
                     => c.id <= d.id

\* a listing of a collection that holds two chunks of one file
C14_Witness ==
  /\ ret.op = "list_documents"
  /\ Len(ret.value) = 1
  /\ \E c \in pg_embedding, d \in pg_embedding :
       /\ c.id < d.id
       /\ c.collection_id = ret.collection_uuid
       /\ d.collection_id = ret.collection_uuid
       /\ c.file_id = d.file_id
       /\ c.file_id # None
       /\ ret.value[1].id = c.id

IsSlice(v, files, limit, offset) ==
  /\ Len(v) = IF Cardinality(files) <= offset THEN 0
              ELSE IF Cardinality(files) - offset < limit
                     THEN Cardinality(files) - offset
                     ELSE limit
  /\ \A i \in DOMAIN v :
       /\ v[i].file_id # None
       /\ v[i].file_id[1] \in files
       /\ Cardinality({f \in files :
                         FileRank(f) < FileRank(v[i].file_id[1])})
            = offset + i - 1

ListedFiles(v) == {v[i].file_id[1] : i \in DOMAIN v}

\* C15: listDocuments(name, limit, offset) returns the entries offset+1 ..
\* offset+limit of the one-per-file sequence sorted by file id ascending, so
\* limit and offset count files, not chunks; the page at offset 0 and the page
\* at offset limit of one collection, unchanged in between, share no file id
\* and together list each of its first 2*limit file ids exactly once.
C15_Pagination ==
  [][/\ (ret'.op = "list_documents" /\ ret'.collection_uuid # 0)
          => IsSlice(ret'.value, FilesOf(pg_embedding', ret'.collection_uuid),
                     ret'.limit, ret'.offset)
     /\ (/\ ret.op = "list_documents"
         /\ ret'.op = "list_documents"
         /\ ret.collection_uuid # 0
         /\ ret'.collection_uuid = ret.collection_uuid
         /\ ret'.limit = ret.limit
         /\ ret.offset = 0
         /\ ret'.offset = ret.limit)
          => LET files == FilesOf(pg_embedding, ret.collection_uuid)
             IN /\ ListedFiles(ret.value) \cap ListedFiles(ret'.value) = {}
                /\ Len(ret.value) + Len(ret'.value)
                     = Cardinality(ListedFiles(ret.value)
                                     \cup ListedFiles(ret'.value))
                /\ Cardinality(files) <= 2 * ret.limit
                     => ListedFiles(ret.value) \cup ListedFiles(ret'.value)
                          = files]_vars

\* the second page of one entry of a collection that holds two files
C15_Witness ==
  /\ ret.op = "list_documents"
  /\ ret.limit = 1
  /\ ret.offset = 1
  /\ Len(ret.value) = 1
  /\ Cardinality(FilesOf(pg_embedding, ret.collection_uuid)) = 2

\* C16: deleteByFile with an empty list of file ids returns success and
\* changes no collection row and no chunk, whether or not a collection of that
\* name exists.
C16_EmptyDeleteIsNoOp ==
  [][(ret'.op = "delete_documents" /\ ret'.file_ids = {})
       => /\ ret'.value = TRUE
          /\ pg_collection' = pg_collection
          /\ pg_embedding' = pg_embedding]_vars

\* an empty deleteByFile on a name no collection has, with a chunk stored
C16_Witness ==
  /\ ret.op = "delete_documents"
  /\ ret.file_ids = {}
  /\ ret.value = TRUE
  /\ pg_embedding # {}
  /\ \A r \in pg_collection : r.name # ret.name

C18_DeleteUnknownNameFails ==
  [][(/\ ret'.op = "delete_documents"
      /\ ret'.file_ids # {}
      /\ \A r \in pg_collection : r.name # ret'.name)
       => /\ ret'.value = FALSE
          /\ pg_collection' = pg_collection
          /\ pg_embedding' = pg_embedding]_vars

\* a failed deleteByFile on a name no collection has, while another collection
\* holds a chunk of one of the file ids asked for
C18_Witness ==
  /\ ret.op = "delete_documents"
  /\ ret.value = FALSE
  /\ \A r \in pg_collection : r.name # ret.name
  /\ \E c \in pg_embedding : c.file_id # None /\ c.file_id[1] \in ret.file_ids

\* C19: insert returns one newly generated id per input document, in input
\* order, and a getChunk on a returned id right after the insert returns the
\* content and the metadata of the document at the same input position.
C19_InsertGetRoundTrip ==
  [][/\ ret'.op = "add_documents"
          => /\ Len(ret'.value) = Len(ret'.documents)
             /\ \A i \in DOMAIN ret'.value :
                  /\ \A c \in pg_embedding : ChunkIdStr(c.id) # ret'.value[i]
                  /\ \E c \in pg_embedding' :
                       /\ ChunkIdStr(c.id) = ret'.value[i]
                       /\ c.document = ret'.documents[i].page_content
                       /\ c.file_id = ret'.documents[i].file_id
     /\ (ret.op = "add_documents" /\ ret'.op = "get_document")
          => \A i \in DOMAIN ret.value :
               ret.value[i] = ret'.id
                 => /\ ret'.value # None
                    /\ ret'.value[1].content = ret.documents[i].page_content
                    /\ ret'.value[1].metadata = DocMetadata(ret.documents[i])]_vars

\* C20: search returns at most k hits, nearest first, and they are the hits
\* the vector search delivered, one for one and in its order: none dropped,
\* none added, none moved.
C20_SearchKeepsHits ==
  ret.op = "search" =>
    /\ Len(ret.value) <= ret.limit
    /\ Len(ret.value) = Len(ret.results_with_scores)
    /\ \A i \in DOMAIN ret.value :
         /\ ret.value[i].page_content = ret.results_with_scores[i][1].page_content
         /\ ret.value[i].metadata = ret.results_with_scores[i][1].metadata
         /\ ret.value[i].score = ret.results_with_scores[i][2]
    /\ \A i \in DOMAIN ret.value : \A j \in DOMAIN ret.value :
         i < j => ret.value[i].score <= ret.value[j].score

\* two hits at different distances, the nearer one without an id
C20_Witness ==
  /\ ret.op = "search"
  /\ Len(ret.value) = 2
  /\ ret.value[1].id = None
  /\ ret.value[2].id # None
  /\ ret.value[1].score < ret.value[2].score

\* the rows of owner u named n
RowsOf(table, u, n) == {r \in table : r.name = n /\ OwnerOf(r) = u}

\* C21: two creates of one owner and name that both passed the pre-check
\* never both succeed: the insert that comes second is refused with the
\* uniqueness violation and its call ends there, the two calls are never both
\* past their insert, and one collection of that owner and name exists.
C21_CreateRaceOneWinner ==
  [][/\ \A t \in Tasks :
          (/\ tasks[t].pc = "insert"
           /\ tasks'[t] # tasks[t]
           /\ OwnsName(tasks[t].user, tasks[t].name))
            => /\ ret'.op = "create"
               /\ ret'.status = "UniqueViolation"
               /\ tasks'[t] = Idle
               /\ pg_collection' = pg_collection
               /\ Cardinality(RowsOf(pg_collection', tasks[t].user,
                                     tasks[t].name)) = 1
     /\ \A t \in Tasks : \A x \in Tasks :
          (/\ t # x
           /\ tasks'[t].pc = "fetch"
           /\ tasks'[x].pc = "fetch"
           /\ tasks'[t].user = tasks'[x].user)
            => tasks'[t].name # tasks'[x].name
     /\ \A u \in Users : \A n \in Names :
          Cardinality(RowsOf(pg_collection', u, n)) <= 1
     /\ ret'.op = "create" /\ ret'.status = "ok"
          => /\ ret'.value # None
             /\ Cardinality(RowsOf(pg_collection', ret'.user, ret'.name)) = 1]_vars

\* the second of two racing creates refused after the first has returned
C21_Witness ==
  /\ ret.op = "create"
  /\ ret.status = "UniqueViolation"
  /\ Cardinality(RowsOf(pg_collection, ret.user, ret.name)) = 1
  /\ \A t \in Tasks : tasks[t] = Idle
  /\ Cardinality(pg_collection) = 1

\* C22: _parse_metadata returns a plain key-value map for every raw value:
\* the empty map for null, for the text "null" and for text that is no JSON,
\* the decoded map for the text of a JSON object, the map itself for a map,
\* and never a value that is not a map.
C22_ParseReturnsMap ==
  ret.op = "parse_metadata" =>
    /\ IsDict(ret.value)
    /\ ret.raw = None => ret.value = EmptyDict
    /\ ret.raw \in {Some(NullText), Some(InvalidText)} => ret.value = EmptyDict
    /\ (ret.raw # None /\ IsStr(ret.raw[1]) /\ ret.raw[1].kind = "object")
         => ret.value = JsonLoads(ret.raw[1])
    /\ (ret.raw # None /\ IsDict(ret.raw[1])) => ret.value = ret.raw[1]

\* C23: a failure of the connection or of the execution of a query leaves
\* every operation as a failure and never as a normal result; only a missing
\* relation is degraded, to an empty result by the reads of the document view
\* and to false by deleteByFile.
C23_FailuresPropagate ==
  "fault" \in DOMAIN ret =>
    IF ret.fault = "UndefinedTableError"
         /\ ret.op \in {"list_documents", "get_document", "delete_documents"}
      THEN /\ ret.raised = None
           /\ ret.op = "list_documents" => ret.value = <<>>
           /\ ret.op = "get_document" => ret.value = None
           /\ ret.op = "delete_documents" => ret.value = FALSE
      ELSE ret.raised = Some(ret.fault)

C25_UpdateFrame ==
  [][(ret'.op = "update" /\ ret'.status = "ok")
       => \E old \in pg_collection : \E new \in pg_collection' :
            /\ UuidStr(old.uuid) = ret'.id
            /\ OwnerOf(old) = ret'.user
            /\ new.uuid = old.uuid
            /\ ret'.value[1].uuid = ret'.id
            /\ pg_collection' \ {new} = pg_collection \ {old}
            /\ pg_embedding' = pg_embedding
            /\ new.name = IF ret'.new_name = None THEN old.name
                          ELSE ret'.new_name[1]
            /\ new.name # old.name
                 => /\ LookupByName(pg_collection', ret'.user, old.name)
                         = {None}
                    /\ \A found \in LookupByName(pg_collection', ret'.user,
                                                 new.name) :
                         found # None /\ found[1].uuid = ret'.id]_vars

\* a rename of one of two collections, a chunk being stored
C25_Witness ==
  /\ ret.op = "update"
  /\ ret.status = "ok"
  /\ ret.new_name # None
  /\ \E b \in ret.before : b.name # ret.new_name[1]
  /\ Cardinality(pg_collection) = 2
  /\ pg_embedding # {}

====
